---- MODULE Spec2Model ----
(***************************************************************************)
(* Digital Library Manager (book.py): the session-state collection, its    *)
(* file mirror library.json, and one run of main() per UI interaction:     *)
(* load_library, the selected view, then the sidebar snapshot.             *)
(* What the widget library does with the page (rendering, widget keys) is  *)
(* outside the model; a run ends "crashed" when a statement of book.py     *)
(* raises outside every try.                                               *)
(*                                                                         *)
(* Python values are tagged records: str (a sequence of characters), num,  *)
(* bool, null, arr (list) and obj (dict, a sequence of <<key, value>>      *)
(* pairs with distinct keys, in insertion order).  A JSON text is a        *)
(* sequence of tokens: punctuation, whitespace and scalar literals.        *)
(***************************************************************************)
EXTENDS Integers, Sequences, FiniteSets, TLC

\* the most books the add form may grow the collection to
MaxBooks == 2

\* the most rows the user adds to the editable table of remove_book
MaxAdded == 2

\* datetime.datetime.now().year, the max_value of the year input
CurrentYear == 2026

-----------------------------------------------------------------------------
(* Python values *)

Str(s) == [t |-> "str", s |-> s]
Num(n) == [t |-> "num", n |-> n]
Bool(b) == [t |-> "bool", b |-> b]
Null == [t |-> "null"]
Arr(a) == [t |-> "arr", a |-> a]
Obj(o) == [t |-> "obj", o |-> o]

IsStr(v) == v.t = "str"
IsList(v) == v.t = "arr"
IsDict(v) == v.t = "obj"

K_title == <<"t", "i", "t", "l", "e">>
K_author == <<"a", "u", "t", "h", "o", "r">>
K_year == <<"y", "e", "a", "r">>
K_genre == <<"g", "e", "n", "r", "e">>
K_read == <<"r", "e", "a", "d">>

\* ['title', 'author', 'year', 'genre', 'read']
RequiredKeys == <<K_title, K_author, K_year, K_genre, K_read>>

\* key in d
HasKey(d, k) == \E i \in 1..Len(d.o) : d.o[i][1] = k

\* d[key], for a key that is present
GetItem(d, k) == d.o[CHOOSE i \in 1..Len(d.o) : d.o[i][1] = k][2]

\* d[key] = value: replaces in place, or appends a new key
SetItem(d, k, val) ==
    IF HasKey(d, k)
    THEN Obj([i \in 1..Len(d.o) |-> IF d.o[i][1] = k THEN <<k, val>> ELSE d.o[i]])
    ELSE Obj(Append(d.o, <<k, val>>))

\* bool(value)
Truthy(v) ==
    CASE v.t = "str" -> v.s # <<>>
      [] v.t = "num" -> v.n # 0
      [] v.t = "bool" -> v.b
      [] v.t = "null" -> FALSE
      [] v.t = "arr" -> v.a # <<>>
      [] v.t = "obj" -> v.o # <<>>

UpperChars == <<"A", "B", "C", "D", "E", "F", "G", "H", "I", "J", "K", "L", "M",
                "N", "O", "P", "Q", "R", "S", "T", "U", "V", "W", "X", "Y", "Z">>
LowerChars == <<"a", "b", "c", "d", "e", "f", "g", "h", "i", "j", "k", "l", "m",
                "n", "o", "p", "q", "r", "s", "t", "u", "v", "w", "x", "y", "z">>

LowerChar(c) ==
    IF \E i \in 1..Len(UpperChars) : UpperChars[i] = c
    THEN LowerChars[CHOOSE i \in 1..Len(UpperChars) : UpperChars[i] = c]
    ELSE c

\* s.lower()
Lower(s) == [i \in 1..Len(s) |-> LowerChar(s[i])]

\* a in b, for two strings
Contains(a, b) ==
    \E off \in 0..(Len(b) - Len(a)) : \A i \in 1..Len(a) : b[off + i] = a[i]

DigitChars == <<"0", "1", "2", "3", "4", "5", "6", "7", "8", "9">>

RECURSIVE Digits(_)
Digits(n) ==
    IF n < 10 THEN <<DigitChars[n + 1]>>
    ELSE Append(Digits(n \div 10), DigitChars[(n % 10) + 1])

\* str(value), for the scalar values a searched field holds
PyStr(v) ==
    CASE v.t = "str" -> v.s
      [] v.t = "num" -> IF v.n < 0 THEN <<"-">> \o Digits(0 - v.n) ELSE Digits(v.n)
      [] v.t = "bool" -> IF v.b THEN <<"T", "r", "u", "e">> ELSE <<"F", "a", "l", "s", "e">>
      [] v.t = "null" -> <<"N", "o", "n", "e">>

-----------------------------------------------------------------------------
(* JSON text *)

P(p) == [p |-> p]
Lit(v) == [lit |-> v]
WS == P("ws")

IsP(tk, p) == "p" \in DOMAIN tk /\ tk.p = p
IsLit(tk) == "lit" \in DOMAIN tk

RECURSIVE Dumps(_, _)
RECURSIVE DumpItems(_, _, _)
RECURSIVE DumpMembers(_, _, _)

\* the elements of a list from position i on, separated by commas
DumpItems(a, i, indent) ==
    IF i > Len(a) THEN <<>>
    ELSE Dumps(a[i], indent)
         \o (IF i < Len(a) THEN <<P(","), WS>> ELSE <<>>)
         \o DumpItems(a, i + 1, indent)

\* the key: value members of a dict from position i on
DumpMembers(o, i, indent) ==
    IF i > Len(o) THEN <<>>
    ELSE <<Lit(Str(o[i][1])), P(":"), WS>> \o Dumps(o[i][2], indent)
         \o (IF i < Len(o) THEN <<P(","), WS>> ELSE <<>>)
         \o DumpMembers(o, i + 1, indent)

\* json.dumps(value) / json.dumps(value, indent=2): indentation puts
\* whitespace inside the brackets of a non-empty container
Dumps(v, indent) ==
    CASE v.t = "arr" ->
           IF v.a = <<>> THEN <<P("["), P("]")>>
           ELSE <<P("[")>> \o (IF indent THEN <<WS>> ELSE <<>>)
                \o DumpItems(v.a, 1, indent)
                \o (IF indent THEN <<WS>> ELSE <<>>) \o <<P("]")>>
      [] v.t = "obj" ->
           IF v.o = <<>> THEN <<P("{"), P("}")>>
           ELSE <<P("{")>> \o (IF indent THEN <<WS>> ELSE <<>>)
                \o DumpMembers(v.o, 1, indent)
                \o (IF indent THEN <<WS>> ELSE <<>>) \o <<P("}")>>
      [] OTHER -> <<Lit(v)>>

ParseFail == [ok |-> FALSE, val |-> Null, next |-> 0]
ParseOk(v, n) == [ok |-> TRUE, val |-> v, next |-> n]

RECURSIVE ParseValue(_, _)
RECURSIVE ParseItems(_, _, _)
RECURSIVE ParseMembers(_, _, _)

\* the elements after "[" or ",": value, then "," or "]"
ParseItems(toks, i, acc) ==
    LET r == ParseValue(toks, i) IN
    IF ~r.ok \/ r.next > Len(toks) THEN ParseFail
    ELSE IF IsP(toks[r.next], ",") THEN ParseItems(toks, r.next + 1, Append(acc, r.val))
    ELSE IF IsP(toks[r.next], "]") THEN ParseOk(Arr(Append(acc, r.val)), r.next + 1)
    ELSE ParseFail

\* the members after "{" or ",": string, ":", value, then "," or "}";
\* a repeated key keeps its first position and takes the last value
ParseMembers(toks, i, acc) ==
    IF i + 1 > Len(toks) \/ ~IsLit(toks[i]) \/ ~IsP(toks[i + 1], ":") THEN ParseFail
    ELSE IF ~IsStr(toks[i].lit) THEN ParseFail
    ELSE LET r == ParseValue(toks, i + 2) IN
         IF ~r.ok \/ r.next > Len(toks) THEN ParseFail
         ELSE LET d == SetItem(acc, toks[i].lit.s, r.val) IN
              IF IsP(toks[r.next], ",") THEN ParseMembers(toks, r.next + 1, d)
              ELSE IF IsP(toks[r.next], "}") THEN ParseOk(d, r.next + 1)
              ELSE ParseFail

ParseValue(toks, i) ==
    IF i > Len(toks) THEN ParseFail
    ELSE IF IsLit(toks[i]) THEN ParseOk(toks[i].lit, i + 1)
    ELSE IF IsP(toks[i], "[")
         THEN IF i + 1 <= Len(toks) /\ IsP(toks[i + 1], "]")
              THEN ParseOk(Arr(<<>>), i + 2)
              ELSE ParseItems(toks, i + 1, <<>>)
    ELSE IF IsP(toks[i], "{")
         THEN IF i + 1 <= Len(toks) /\ IsP(toks[i + 1], "}")
              THEN ParseOk(Obj(<<>>), i + 2)
              ELSE ParseMembers(toks, i + 1, Obj(<<>>))
    ELSE ParseFail

\* the text without its whitespace
SkipWS(text) == SelectSeq(text, LAMBDA tk : ~IsP(tk, "ws"))

\* json.load(f): the value, or JSONDecodeError when the text is not one
\* JSON value followed by nothing
Loads(text) ==
    LET toks == SkipWS(text)
        r == ParseValue(toks, 1)
    IN IF r.ok /\ r.next = Len(toks) + 1
       THEN [ok |-> TRUE, val |-> r.val]
       ELSE [ok |-> FALSE, val |-> Null]

-----------------------------------------------------------------------------
(* Sample strings and records *)

S_Dune == <<"D", "u", "n", "e">>
S_Ab == <<"A", "b">>
S_Z == <<"Z">>
S_Fiction == <<"F", "i", "c", "t", "i", "o", "n">>
S_NonFiction == <<"N", "o", "n", "-", "F", "i", "c", "t", "i", "o", "n">>
S_Science == <<"S", "c", "i", "e", "n", "c", "e">>
S_true == <<"t", "r", "u", "e">>
S_TRUE == <<"T", "R", "U", "E">>
S_yes == <<"y", "e", "s">>

\* new_book of add_book: the five keys in the order the literal gives them
NewBook(title, author, year, genre, read_status) ==
    Obj(<< <<K_title, Str(title)>>, <<K_author, Str(author)>>, <<K_year, Num(year)>>,
           <<K_genre, Str(genre)>>, <<K_read, Bool(read_status = "Read")>> >>)

\* a record with the five keys and any read value
Rec5(title, author, year, genre, read) ==
    Obj(<< <<K_title, title>>, <<K_author, author>>, <<K_year, year>>,
           <<K_genre, genre>>, <<K_read, read>> >>)

\* a record without the read key
Rec4(title, author, year, genre) ==
    Obj(<< <<K_title, title>>, <<K_author, author>>, <<K_year, year>>,
           <<K_genre, genre>> >>)

B_Dune == Rec5(Str(S_Dune), Str(S_Z), Num(1965), Str(S_Fiction), Bool(TRUE))
B_Legacy == Rec5(Str(S_Ab), Str(S_Z), Num(1), Str(S_NonFiction), Str(S_TRUE))
B_Yes == Rec5(Str(S_Ab), Str(S_Ab), Num(2000), Str(S_Science), Str(S_yes))
B_Blank == Rec5(Str(<<>>), Str(S_Z), Num(0), Str(S_Science), Bool(FALSE))
B_NumTitle == Rec5(Num(12), Str(S_Dune), Num(3000), Null, Null)
B_NoRead == Rec4(Str(S_Dune), Str(S_Ab), Num(1999), Str(S_Fiction))

\* a JSON text that repeats the key read
T_DupKey ==
    <<P("["), P("{")>>
    \o DumpMembers(B_Dune.o, 1, FALSE)
    \o <<P(","), Lit(Str(K_read)), P(":"), Lit(Bool(FALSE)), P("}"), P("]")>>

\* texts that are not JSON: empty, cut short, a missing colon, trailing text
BadTexts ==
    { <<>>,
      <<P("["), P("{")>>,
      <<P("{"), Lit(Str(K_title)), Lit(Str(S_Ab)), P("}")>>,
      <<P("["), P("]"), P("]")>>,
      <<P("["), Lit(Num(1)), P(","), P("]")>> }

\* the contents library.json may have when the application starts
InitialTexts ==
    BadTexts
    \cup { Dumps(v, FALSE) :
             v \in { Arr(<<>>), Arr(<<B_Dune>>), Arr(<<B_Legacy, Num(7), B_Dune>>),
                     Arr(<<B_NoRead, B_Blank>>), Arr(<<B_NumTitle, Str(S_Ab)>>),
                     Arr(<<B_Dune, B_Yes, B_Blank>>),
                     B_Dune, Num(5) } }
    \cup { T_DupKey }

\* the files the user may upload on the Manage Data view
UploadTexts ==
    { <<P("["), P("{")>> }
    \cup { Dumps(v, TRUE) :
             v \in { Arr(<<B_Dune, B_NoRead>>), Arr(<<B_Yes, Num(7)>>), B_Dune, Num(5) } }

FormTitles == {<<>>, S_Ab}
FormAuthors == {<<>>, S_Z}
FormYears == {CurrentYear}
FormGenres == {S_Science}
ReadStatuses == {"Read", "Unread"}
SearchTypes == {"Title", "Author", "Genre"}
SearchTerms == {<<>>, <<"F", "i", "C">>, <<"d", "U">>, <<"1">>}

-----------------------------------------------------------------------------
(* State *)

VARIABLES
    pc,        \* where the run of main() stands: idle, nav, sidebar, crashed
    view,      \* the navigation entry the run dispatched to
    library,   \* st.session_state.library
    file,      \* library.json: whether it exists, and its text
    msgs,      \* what the run reported through st.error/warning/success/info
    form,      \* the add-book form as submitted
    search,    \* the search widgets: search_type and search_term
    results,   \* the results list of search_books
    stats,     \* the counts of display_statistics
    upload,    \* uploaded_file of the Manage Data view
    download,  \* the export the user saved, with the collection it was made from
    editor     \* the data_editor of remove_book: rows deleted, rows added, button

vars == <<pc, view, library, file, msgs, form, search, results, stats, upload,
          download, editor>>

Msg(kind, n) == [kind |-> kind, n |-> n]

NoForm == [submitted |-> FALSE, title |-> <<>>, author |-> <<>>, year |-> 1,
           genre |-> S_Fiction, read_status |-> "Read"]
NoSearch == [search_type |-> "Title", search_term |-> <<>>]
NoResults == [searched |-> FALSE, books |-> <<>>]
NoStats == [shown |-> FALSE, total |-> 0, read_count |-> 0, genres |-> 0]
NoUpload == [present |-> FALSE, text |-> <<>>]
NoDownload == [present |-> FALSE, text |-> <<>>, of |-> Arr(<<>>)]
NoEditor == [deleted |-> {}, added |-> 0, confirm |-> FALSE]

\* the script's top level: the session starts with an empty library;
\* library.json is whatever the working directory holds
Init ==
    /\ pc = "idle"
    /\ view = "none"
    /\ library = Arr(<<>>)
    /\ file \in {[exists |-> FALSE, text |-> <<>>]}
                \cup {[exists |-> TRUE, text |-> t] : t \in InitialTexts}
    /\ msgs = {}
    /\ form = NoForm
    /\ search = NoSearch
    /\ results = NoResults
    /\ stats = NoStats
    /\ upload = NoUpload
    /\ download = NoDownload
    /\ editor = NoEditor

\* json.dump(st.session_state.library, f) into library.json
save_library(lib) == [exists |-> TRUE, text |-> Dumps(lib, FALSE)]

-----------------------------------------------------------------------------
(* load_library *)

\* isinstance(item, dict) and all(key in item for key in [...])
IsValidEntry(item) ==
    IsDict(item) /\ \A i \in 1..Len(RequiredKeys) : HasKey(item, RequiredKeys[i])

\* the fix-up without .lower(): only the exact text true reads as True
FixLegacyRead_CaseSensitive(item) ==
    IF IsStr(GetItem(item, K_read))
    THEN SetItem(item, K_read, Bool(GetItem(item, K_read).s = S_true))
    ELSE item

\* item['read'] = item['read'].lower() == 'true', for a string read
FixLegacyRead(item) ==
    IF IsStr(GetItem(item, K_read))
    THEN SetItem(item, K_read, Bool(Lower(GetItem(item, K_read).s) = S_true))
    ELSE item

RECURSIVE FilterValid(_, _)
\* the loop over raw_data from position i on: valid_books
FilterValid(raw, i) ==
    IF i > Len(raw) THEN <<>>
    ELSE IF IsValidEntry(raw[i])
         THEN <<FixLegacyRead(raw[i])>> \o FilterValid(raw, i + 1)
         ELSE FilterValid(raw, i + 1)

\* the st.warning of each entry the loop removes, by 0-based position
RemovedWarnings(raw) ==
    {Msg("removed_invalid_entry", i - 1) : i \in {j \in 1..Len(raw) : ~IsValidEntry(raw[j])}}

\* a corrupted file taken for a file of the wrong shape
OnCorrupted_AsFormat == [library |-> Arr(<<>>), msgs |-> {Msg("invalid_library_format", 0)}]

\* except json.JSONDecodeError: the error, and the reset to an empty library
OnCorrupted == [library |-> Arr(<<>>), msgs |-> {Msg("corrupted_library_file", 0)}]

\* what load_library leaves in the session, and what it reports
LoadResult(f) ==
    IF ~f.exists THEN [library |-> Arr(<<>>), msgs |-> {}]
    ELSE LET r == Loads(f.text) IN
         IF ~r.ok
         THEN OnCorrupted
         ELSE IF ~IsList(r.val)
         THEN [library |-> Arr(<<>>), msgs |-> {Msg("invalid_library_format", 0)}]
         ELSE LET valid_books == FilterValid(r.val.a, 1) IN
              [library |-> Arr(valid_books),
               msgs |-> RemovedWarnings(r.val.a)
                        \cup {Msg("loaded_valid_books", Len(valid_books))}]

\* main() starts a run: load_library(), then the navigation
load_library ==
    /\ pc \in {"idle", "crashed"}
    /\ pc' = "nav"
    /\ view' = "none"
    /\ library' = LoadResult(file).library
    /\ msgs' = LoadResult(file).msgs
    /\ form' = NoForm
    /\ search' = NoSearch
    /\ results' = NoResults
    /\ stats' = NoStats
    /\ upload' = NoUpload
    /\ editor' = NoEditor
    /\ UNCHANGED <<file, download>>

-----------------------------------------------------------------------------
(* The views *)

\* book[key] for every key in keys succeeds: book is a dict holding them
Subscriptable(book, keys) == IsDict(book) /\ \A k \in keys : HasKey(book, k)

CardKeys == {K_read, K_title, K_author, K_year, K_genre}

\* the card loop of library_view runs through: every element it
\* enumerates is a dict with the keys the card reads
CardsRender(lib) ==
    IsList(lib) /\ \A i \in 1..Len(lib.a) : Subscriptable(lib.a[i], CardKeys)

\* library_view (the definition in force, the second one)
library_view ==
    /\ pc = "nav"
    /\ view' = "overview"
    /\ IF ~Truthy(library)
       THEN pc' = "sidebar" /\ msgs' = msgs \cup {Msg("library_is_empty", 0)}
       ELSE pc' = (IF CardsRender(library) THEN "sidebar" ELSE "crashed")
            /\ msgs' = msgs
    /\ UNCHANGED <<library, file, form, search, results, stats, upload, download, editor>>

\* the collection after st.session_state.library.append(new_book)
Appended(lib, book) == Arr(Append(lib.a, book))

\* the check with the author forgotten
MissingRequired_TitleOnly(title, author) == title = <<>>

\* not title or not author
MissingRequired(title, author) == title = <<>> \/ author = <<>>

\* add_book: the form, and what a press of its submit button does
add_book(submitted, title, author, year, genre, read_status) ==
    /\ pc = "nav"
    /\ IsList(library)
    /\ (submitted /\ ~MissingRequired(title, author)) => Len(library.a) < MaxBooks
    /\ pc' = "sidebar"
    /\ view' = "add"
    /\ form' = IF submitted
               THEN [submitted |-> TRUE, title |-> title, author |-> author,
                     year |-> year, genre |-> genre, read_status |-> read_status]
               ELSE NoForm
    /\ IF ~submitted
       THEN UNCHANGED <<library, file, msgs>>
       ELSE IF MissingRequired(title, author)
       THEN /\ msgs' = msgs \cup {Msg("title_and_author_required", 0)}
            /\ UNCHANGED <<library, file>>
       ELSE /\ library' = Appended(library, NewBook(title, author, year, genre, read_status))
            /\ file' = save_library(library')
            /\ msgs' = msgs \cup {Msg("book_added", 0)}
    /\ UNCHANGED <<search, results, stats, upload, download, editor>>

\* search_type.lower() if search_type != "Genre" else "genre"
SearchKey(search_type) ==
    CASE search_type = "Title" -> K_title
      [] search_type = "Author" -> K_author
      [] search_type = "Genre" -> K_genre

\* the comparison without the two .lower() calls
Matches_CaseSensitive(search_term, target) == Contains(search_term, PyStr(target))

\* search_term.lower() in str(target).lower()
Matches(search_term, target) == Contains(Lower(search_term), Lower(PyStr(target)))

RECURSIVE SearchLoop(_, _, _, _)
\* the loop over the library from position i on: results
SearchLoop(books, i, key, search_term) ==
    IF i > Len(books) THEN <<>>
    ELSE IF Matches(search_term, GetItem(books[i], key))
         THEN <<books[i]>> \o SearchLoop(books, i + 1, key, search_term)
         ELSE SearchLoop(books, i + 1, key, search_term)

\* search_books
search_books(search_type, search_term) ==
    /\ pc = "nav"
    /\ view' = "search"
    /\ search' = [search_type |-> search_type, search_term |-> search_term]
    /\ IF search_term = <<>>
       THEN pc' = "sidebar" /\ UNCHANGED <<results, msgs>>
       ELSE IF ~(IsList(library)
                 /\ \A i \in 1..Len(library.a) :
                        Subscriptable(library.a[i], {SearchKey(search_type)}))
       THEN pc' = "crashed" /\ UNCHANGED <<results, msgs>>
       ELSE LET found == SearchLoop(library.a, 1, SearchKey(search_type), search_term) IN
            /\ results' = [searched |-> TRUE, books |-> found]
            /\ msgs' = msgs \cup {IF found # <<>> THEN Msg("found_results", Len(found))
                                  ELSE Msg("no_matching_books", 0)}
            /\ pc' = (IF CardsRender(Arr(found)) THEN "sidebar" ELSE "crashed")
    /\ UNCHANGED <<library, file, form, stats, upload, download, editor>>

\* what one read value adds to df['read'].sum()
ReadAsNumber(v) ==
    CASE v.t = "bool" -> (IF v.b THEN 1 ELSE 0)
      [] v.t = "num" -> v.n
      [] OTHER -> 0

RECURSIVE ReadSum(_, _)
ReadSum(books, i) ==
    IF i > Len(books) THEN 0
    ELSE ReadAsNumber(GetItem(books[i], K_read)) + ReadSum(books, i + 1)

\* df["genre"].nunique(): the distinct genres, None not counted
GenreCount(books) ==
    Cardinality({GetItem(books[i], K_genre) : i \in 1..Len(books)} \ {Null})

\* display_statistics: the three counts
display_statistics ==
    /\ pc = "nav"
    /\ view' = "statistics"
    /\ IF ~Truthy(library)
       THEN pc' = "sidebar" /\ stats' = stats
            /\ msgs' = msgs \cup {Msg("no_statistics", 0)}
       ELSE IF ~(IsList(library)
                 /\ \A i \in 1..Len(library.a) :
                        Subscriptable(library.a[i], {K_read, K_genre}))
       THEN pc' = "crashed" /\ UNCHANGED <<stats, msgs>>
       ELSE /\ stats' = [shown |-> TRUE, total |-> Len(library.a),
                         read_count |-> ReadSum(library.a, 1),
                         genres |-> GenreCount(library.a)]
            /\ pc' = "sidebar"
            /\ msgs' = msgs
    /\ UNCHANGED <<library, file, form, search, results, upload, download, editor>>

\* an import that merges into the collection instead of replacing it
Imported_Merged(old_library, new_library) ==
    IF IsList(old_library) /\ IsList(new_library)
    THEN Arr(old_library.a \o new_library.a)
    ELSE new_library

\* st.session_state.library = new_library
Imported(old_library, new_library) == new_library

\* what the user may put into the file uploader: nothing, a file of
\* theirs, or the export they saved
UploadChoices ==
    {NoUpload}
    \cup {[present |-> TRUE, text |-> t] : t \in UploadTexts}
    \cup (IF download.present THEN {[present |-> TRUE, text |-> download.text]} ELSE {})

\* file_handling (the definition in force, the second one): the export
\* offered for download, then the import of the uploaded file
file_handling(uploaded_file, clicked) ==
    /\ pc = "nav"
    /\ pc' = "sidebar"
    /\ view' = "manage"
    /\ upload' = uploaded_file
    /\ LET library_json == Dumps(library, TRUE) IN
       download' = IF clicked
                   THEN [present |-> TRUE, text |-> library_json, of |-> library]
                   ELSE download
    /\ IF ~uploaded_file.present
       THEN UNCHANGED <<library, file, msgs>>
       ELSE LET r == Loads(uploaded_file.text) IN
            IF r.ok
            THEN /\ library' = Imported(library, r.val)
                 /\ file' = save_library(library')
                 /\ msgs' = msgs \cup {Msg("library_imported", 0)}
            ELSE /\ msgs' = msgs \cup {Msg("import_error", 0)}
                 /\ UNCHANGED <<library, file>>
    /\ UNCHANGED <<form, search, results, stats, editor>>

\* the Library Snapshot of the sidebar runs through: len(library),
\* library[-1], latest['title'], latest['author']
SnapshotRenders(lib) ==
    \/ ~Truthy(lib)
    \/ /\ IsList(lib)
       /\ Subscriptable(lib.a[Len(lib.a)], {K_title, K_author})

\* the sidebar of main(): Quick Add renders the form of add_book, which
\* no press of its submit button reaches in the run that draws it
Sidebar(quick_add) ==
    /\ pc = "sidebar"
    /\ pc' = (IF SnapshotRenders(library) THEN "idle" ELSE "crashed")
    /\ msgs' = (IF Truthy(library) THEN msgs ELSE msgs \cup {Msg("no_books_in_library", 0)})
    /\ UNCHANGED <<view, library, file, form, search, results, stats, upload,
                   download, editor>>

Next ==
    \/ load_library
    \/ library_view
    \/ \E submitted \in BOOLEAN, title \in FormTitles, author \in FormAuthors,
          year \in FormYears, genre \in FormGenres, read_status \in ReadStatuses :
          add_book(submitted, title, author, year, genre, read_status)
    \/ \E search_type \in SearchTypes, search_term \in SearchTerms :
          search_books(search_type, search_term)
    \/ display_statistics
    \/ \E uploaded_file \in UploadChoices, clicked \in BOOLEAN :
          file_handling(uploaded_file, clicked)
    \/ \E quick_add \in BOOLEAN : Sidebar(quick_add)

Spec == Init /\ [][Next]_vars

-----------------------------------------------------------------------------
(* remove_book: defined by book.py, and given no entry in nav_options *)

\* df.index: the 0-based positions of the collection
RowLabels(lib) == IF IsList(lib) THEN 0..(Len(lib.a) - 1) ELSE {}

RECURSIVE KeptLabels(_, _, _)
\* the labels from i to n - 1 the user did not delete, in order
KeptLabels(i, n, deleted) ==
    IF i >= n THEN <<>>
    ELSE (IF i \in deleted THEN <<>> ELSE <<i>>) \o KeptLabels(i + 1, n, deleted)

\* edited_df.index: the rows kept keep their labels, the rows added
\* (num_rows="dynamic") take new labels after the last one
EditedIndex(n, deleted, added) ==
    KeptLabels(0, n, deleted) \o [k \in 1..added |-> n + k - 1]

\* df.index.difference(edited_df.index)
RemovedIndices(n, edited_index) ==
    (0..(n - 1)) \ {edited_index[k] : k \in 1..Len(edited_index)}

RECURSIVE KeepRows(_, _, _)
\* [b for i, b in enumerate(library) if i not in removed_indices]
KeepRows(books, i, removed_indices) ==
    IF i > Len(books) THEN <<>>
    ELSE (IF (i - 1) \in removed_indices THEN <<>> ELSE <<books[i]>>)
         \o KeepRows(books, i + 1, removed_indices)

\* remove_book
remove_book(deleted, added, confirm) ==
    /\ pc = "nav"
    /\ view' = "remove"
    /\ IF ~Truthy(library)
       THEN /\ pc' = "sidebar"
            /\ msgs' = msgs \cup {Msg("library_is_empty", 0)}
            /\ editor' = NoEditor
            /\ UNCHANGED <<library, file>>
       ELSE IF ~(IsList(library)
                 /\ (\A i \in 1..Len(library.a) : IsDict(library.a[i]))
                 /\ (\A k \in {K_title, K_author, K_year} :
                        \E j \in 1..Len(library.a) : HasKey(library.a[j], k)))
       THEN pc' = "crashed" /\ editor' = NoEditor /\ UNCHANGED <<library, file, msgs>>
       ELSE LET n == Len(library.a)
                edited_index == EditedIndex(n, deleted, added)
            IN /\ pc' = "sidebar"
               /\ editor' = [deleted |-> deleted, added |-> added, confirm |-> confirm]
               /\ IF confirm /\ Len(edited_index) < n
                  THEN /\ library' = Arr(KeepRows(library.a, 1, RemovedIndices(n, edited_index)))
                       /\ file' = save_library(library')
                       /\ msgs' = msgs \cup {Msg("books_removed", 0)}
                  ELSE UNCHANGED <<library, file, msgs>>
    /\ UNCHANGED <<form, search, results, stats, upload, download>>

\* a session whose navigation reaches remove_book
NextRemove ==
    \/ load_library
    \/ \E deleted \in SUBSET RowLabels(library), added \in 0..MaxAdded, confirm \in BOOLEAN :
          remove_book(deleted, added, confirm)
    \/ \E quick_add \in BOOLEAN : Sidebar(quick_add)

SpecRemove == Init /\ [][NextRemove]_vars

-----------------------------------------------------------------------------
(* Properties *)

\* how many members of the set M of positions are at or before position i
Rank(M, i) == Cardinality({j \in M : j <= i})

\* the value v is a dict that has each of the five keys of a book
HasFiveKeys(v) ==
    /\ v.t = "obj"
    /\ \A k \in {K_title, K_author, K_year, K_genre, K_read} :
          \E j \in 1..Len(v.o) : v.o[j][1] = k

\* two characters are the same letter, whatever their case
SameLetter(a, b) ==
    a = b \/ \E k \in 1..Len(UpperChars) : {a, b} = {UpperChars[k], LowerChars[k]}

\* the string a occurs in the string b, case ignored
OccursIgnoringCase(a, b) ==
    \E off \in 0..(Len(b) - Len(a)) : \A i \in 1..Len(a) : SameLetter(a[i], b[off + i])

\* the string s is the word true in any mix of cases
IsTrueWord(s) ==
    Len(s) = 4 /\ \A i \in 1..4 : SameLetter(s[i], S_true[i])

\* kept is what load_library makes of the entry raw: the same keys in the
\* same places with the same values, a string read replaced by a boolean
LoadedFrom(kept, raw) ==
    /\ kept.t = "obj"
    /\ Len(kept.o) = Len(raw.o)
    /\ \A j \in 1..Len(raw.o) :
          /\ kept.o[j][1] = raw.o[j][1]
          /\ IF raw.o[j][1] = K_read /\ raw.o[j][2].t = "str"
             THEN kept.o[j][2] = Bool(IsTrueWord(raw.o[j][2].s))
             ELSE kept.o[j][2] = raw.o[j][2]

\* the run has just loaded a library.json that holds a JSON array
LoadedAnArray ==
    pc = "nav" /\ file.exists /\ Loads(file.text).ok /\ Loads(file.text).val.t = "arr"

\* C1: load_library on a library.json holding a JSON array leaves in the
\* session exactly the entries that are dicts with all five keys, in file
\* order, a string read coerced to a boolean; so N valid books load as N
C1_LoadKeepsValidEntries ==
    LoadedAnArray =>
        LET raw == Loads(file.text).val.a
            valid == {i \in 1..Len(raw) : HasFiveKeys(raw[i])}
        IN /\ library.t = "arr"
           /\ Len(library.a) = Cardinality(valid)
           /\ \A i \in valid : LoadedFrom(library.a[Rank(valid, i)], raw[i])
           /\ (valid = 1..Len(raw)) => Len(library.a) = Len(raw)

\* C1 witness: an array was loaded with an entry dropped, two kept, and a
\* legacy string read among them
C1_Witness ==
    /\ LoadedAnArray
    /\ LET raw == Loads(file.text).val.a IN
       /\ Len(library.a) = 2
       /\ Len(raw) = 3
       /\ \E i \in 1..Len(raw) : HasFiveKeys(raw[i]) /\ GetItem(raw[i], K_read).t = "str"

\* C1 witness of the size case: every entry of a three-book array was kept
C1_WitnessAllValid ==
    /\ LoadedAnArray
    /\ Len(Loads(file.text).val.a) = 3
    /\ Len(library.a) = 3

\* the upload of the Manage Data view is, unmodified, the export saved before
ReimportedExport ==
    /\ view = "manage"
    /\ upload.present
    /\ download.present
    /\ upload.text = download.text

\* C2: importing the text of an export without modification leaves the
\* collection identical to the collection the export was made from
C2_RoundTrip == ReimportedExport => library = download.of

\* C2 witness: an export of two books, one of them added through the form,
\* was imported again and the run went on to its end
C2_Witness ==
    /\ ReimportedExport
    /\ pc = "idle"
    /\ Len(download.of.a) = 2
    /\ \E i \in 1..2 : GetItem(download.of.a[i], K_title) = Str(S_Ab)

\* the step is a press of the add-book button with no title or no author
SubmitsIncomplete ==
    /\ pc = "nav"
    /\ view' = "add"
    /\ form'.submitted
    /\ (form'.title = <<>> \/ form'.author = <<>>)

\* C3: submitting the add-book form with an empty title or an empty author
\* reports the validation error and changes neither the collection nor
\* library.json
C3_EmptyFieldRejected ==
    [][SubmitsIncomplete =>
         /\ library' = library
         /\ file' = file
         /\ Msg("title_and_author_required", 0) \in msgs']_vars

\* C3 witness: a form with an empty title (and an author) was submitted to
\* a library that holds a book
C3_Witness ==
    /\ pc = "sidebar"
    /\ view = "add"
    /\ form.submitted
    /\ form.title = <<>>
    /\ form.author # <<>>
    /\ library.t = "arr"
    /\ Len(library.a) = 1

\* C3 witness of the author case: a form with a title and no author
C3_WitnessAuthor ==
    /\ pc = "sidebar"
    /\ view = "add"
    /\ form.submitted
    /\ form.title # <<>>
    /\ form.author = <<>>

\* the value v is a book as the data model has it
IsProperBook(v) ==
    /\ HasFiveKeys(v)
    /\ GetItem(v, K_title).t = "str" /\ GetItem(v, K_title).s # <<>>
    /\ GetItem(v, K_author).t = "str" /\ GetItem(v, K_author).s # <<>>
    /\ GetItem(v, K_year).t = "num"
    /\ GetItem(v, K_year).n >= 1 /\ GetItem(v, K_year).n <= CurrentYear

\* C4: every book of the collection has a non-empty title, a non-empty
\* author and a year within [1, current year]
C4_BookInvariant ==
    library.t = "arr" => \A i \in 1..Len(library.a) : IsProperBook(library.a[i])

\* the run has just imported an uploaded file that is JSON
ImportedJson ==
    view = "manage" /\ upload.present /\ Loads(upload.text).ok

\* C5: after an import the collection, and the library.json the import
\* wrote, is a sequence of dicts that have the five keys of a book
C5_ImportKeepsOnlyRecords ==
    ImportedJson =>
        /\ library.t = "arr"
        /\ \A i \in 1..Len(library.a) : HasFiveKeys(library.a[i])
        /\ file = save_library(library)

\* C6: importing an array in which an entry has no read key keeps that
\* entry, with read set to false
C6_MissingReadDefaultsUnread ==
    (ImportedJson /\ Loads(upload.text).val.t = "arr") =>
        LET data == Loads(upload.text).val.a IN
        \A i \in 1..Len(data) :
            (data[i].t = "obj" /\ ~HasKey(data[i], K_read)) =>
                /\ library.t = "arr"
                /\ \E j \in 1..Len(library.a) :
                      library.a[j] = SetItem(data[i], K_read, Bool(FALSE))

SearchesWithTerm ==
    pc = "nav" /\ view' = "search" /\ search'.search_term # <<>>

\* the books of the collection lib whose field key, as a string, contains
\* the term with case ignored, are exactly found, in the order of lib
ExactlyTheMatches(lib, key, term, found) ==
    LET M == {i \in 1..Len(lib.a) : OccursIgnoringCase(term, PyStr(GetItem(lib.a[i], key)))}
    IN /\ Len(found) = Cardinality(M)
       /\ \A i \in M : found[Rank(M, i)] = lib.a[i]

\* C8: a search by title, author or genre with a non-empty term returns
\* exactly the books whose value for that field contains the term, case
\* ignored, in collection order, and leaves the collection as it was
C8_SearchExact ==
    [][SearchesWithTerm =>
         /\ library' = library
         /\ file' = file
         /\ results'.searched
         /\ ExactlyTheMatches(library, SearchKey(search'.search_type),
                              search'.search_term, results'.books)]_vars

\* C8 witness: a search by genre whose term differs in case from the genre
\* it finds returned one book of two
C8_Witness ==
    /\ view = "search"
    /\ search.search_type = "Genre"
    /\ search.search_term = <<"F", "i", "C">>
    /\ results.searched
    /\ Len(results.books) = 1
    /\ Len(library.a) = 2
    /\ GetItem(results.books[1], K_genre) = Str(S_Fiction)

\* C9: no run of main() ends in an uncaught exception
C9_NoUncaughtException == pc # "crashed"

\* the step is a confirmed deletion of some rows of the table
ConfirmsDeletion ==
    pc = "nav" /\ view' = "remove" /\ editor'.confirm /\ editor'.deleted # {}

\* C10: a confirmed deletion leaves exactly the books at the positions not
\* deleted, in their order, and overwrites library.json with them, also
\* when rows were added to the table
C10_RemoveExactlyDeleted ==
    [][ConfirmsDeletion =>
         /\ library'.t = "arr"
         /\ LET kept == (1..Len(library.a)) \ {d + 1 : d \in editor'.deleted} IN
            /\ Len(library'.a) = Cardinality(kept)
            /\ \A i \in kept : library'.a[Rank(kept, i)] = library.a[i]
         /\ file' = save_library(library')]_vars

====
